---- MODULE Spec2Model ----
\* Posts service of flare-stack-blog: versioned cache keys, public reads through
\* the cache-aside layer, slug generation, admin sync state, delete cascade and
\* the scheduled-publish workflow instances.
EXTENDS Integers, Sequences, FiniteSets, TLC

\* ---------------------------------------------------------------- bounds
\* Wall-clock ticks the model lets pass.
MaxClock == 3
\* Ticks in one minute (the granularity of getCurrentMinuteEnd).
MinuteLen == 2
\* Requests in flight at once.
MaxReq == 2
\* Requests started in one behaviour.
MaxCalls == 3
\* Requests started in one behaviour of the specifications that race readers
\* against writers and cache maintenance.
MaxRaced == 2
\* Callers outside the posts service bump a counter only below this version.
MaxVersion == 2
\* Range of the sync hash (collisions are possible).
HashMod == 7

VARIABLES
  posts,       \* PostsTable: id -> row
  nextId,      \* auto-increment primary key
  clock,       \* Date.now(), in ticks
  version,     \* cache version counters: namespace -> {} (absent) or {n}
  cache,       \* KV store: key -> [val, wv]
  req,         \* request slots: the position and locals of each running handler
  calls,       \* number of requests started
  deferred,    \* executionCtx.waitUntil: tasks registered and not yet settled
  searchIndex, \* post ids in the search index
  cdnCache,    \* slugs held by the CDN
  postMedia,   \* media-reference index: post id -> content it was derived from
  bumps,       \* namespace -> number of bumpVersion calls completed
  instances,   \* SCHEDULED_PUBLISH_WORKFLOW instances
  processRuns  \* POST_PROCESS_WORKFLOW instances created (their params)

vars == <<posts, nextId, clock, version, cache, req, calls, deferred,
          searchIndex, cdnCache, postMedia, bumps, instances, processRuns>>

Slots == 1..MaxReq
Namespaces == {"posts:list", "posts:detail"}
Statuses == {"draft", "published", "archived"}

\* ---------------------------------------------------------------- helpers
Max(S) == CHOOSE x \in S : \A y \in S : y <= x

Range(f) == {f[x] : x \in DOMAIN f}

\* The elements of a finite set of integers, largest first.
RECURSIVE DescSeq(_)
DescSeq(S) == IF S = {} THEN <<>> ELSE <<Max(S)>> \o DescSeq(S \ {Max(S)})

RECURSIVE Take(_, _)
Take(seq, n) == IF n <= 0 \/ seq = <<>> THEN <<>> ELSE <<Head(seq)>> \o Take(Tail(seq), n - 1)

\* ---------------------------------------------------------------- time
\* End of the minute that contains t.
getCurrentMinuteEnd(t) == (t \div MinuteLen) * MinuteLen + (MinuteLen - 1)

\* Date.prototype.toISOString and new Date(iso): a timestamp as <<minute, tick>>.
toISOString(t) == <<t \div MinuteLen, t % MinuteLen>>
parseDate(iso) == iso[1] * MinuteLen + iso[2]

\* ---------------------------------------------------------------- cache service
getVersionOf(vs, ns) == IF vs[ns] = {} THEN 1 ELSE Max(vs[ns])

\* getVersion creates the counter at 1 when it is absent.
getVersionStore(vs, ns) == [vs EXCEPT ![ns] = {getVersionOf(vs, ns)}]

\* A read-modify-write that loses the increment of an absent counter.
bumpVersionLossy(vs, ns) == [vs EXCEPT ![ns] = IF vs[ns] = {} THEN {1} ELSE {Max(vs[ns]) + 1}]

bumpVersion(vs, ns) == [vs EXCEPT ![ns] = {getVersionOf(vs, ns) + 1}]

\* POSTS_CACHE_KEYS
listKey(v, limit, cursor, tagName) == <<"posts:list", v, limit, cursor, tagName>>
detailKey(v, slug) == <<"posts:detail", v, slug>>
relatedKey(slug, limit) == <<"posts:related", slug, limit>>
syncHashKey(id) == <<"posts:sync-hash", id>>

cachePut(c, key, entry) == [k \in DOMAIN c \cup {key} |-> IF k = key THEN entry ELSE c[k]]
deleteKey(c, key) == [k \in DOMAIN c \ {key} |-> c[k]]
getRaw(c, key) == IF key \in DOMAIN c THEN {c[key].val} ELSE {}

\* ---------------------------------------------------------------- strings
\* Strings are sequences of one-character strings.
RECURSIVE trimLeft(_)
trimLeft(str) == IF str # <<>> /\ Head(str) = " " THEN trimLeft(Tail(str)) ELSE str

RECURSIVE trimRight(_)
trimRight(str) ==
  IF str # <<>> /\ str[Len(str)] = " " THEN trimRight(SubSeq(str, 1, Len(str) - 1)) ELSE str

trim(str) == trimRight(trimLeft(str))

\* SQL LIKE '%term%' for a term without wildcards.
Contains(str, term) ==
  \E i \in 1..(Len(str) + 1) :
    /\ i + Len(term) - 1 <= Len(str)
    /\ SubSeq(str, i, i + Len(term) - 1) = term

\* ---------------------------------------------------------------- query helper
\* An optional input is {} (undefined) or {value}.
Opt(x, default) == IF x = {} THEN default ELSE CHOOSE v \in x : TRUE

\* A public query that forgets the status clause.
buildPostWhereClauseNoStatus(options, now) ==
  (IF options.publicOnly
     THEN <<[op |-> "lte", field |-> "publishedAt", time |-> getCurrentMinuteEnd(now)]>>
     ELSE <<>>)

buildPostWhereClause(options, now) ==
  (IF options.status # {}
     THEN <<[op |-> "eq", field |-> "status", str |-> Opt(options.status, "")]>>
     ELSE <<>>)
  \o
  (IF options.publicOnly
     THEN << [op |-> "eq", field |-> "status", str |-> "published"],
             [op |-> "lte", field |-> "publishedAt", time |-> getCurrentMinuteEnd(now)] >>
     ELSE <<>>)
  \o
  (IF options.search # {} /\ trim(Opt(options.search, <<>>)) # <<>>
     THEN <<[op |-> "like", field |-> "title", term |-> trim(Opt(options.search, <<>>))]>>
     ELSE <<>>)

\* SQL evaluation of one clause on a row; a comparison with NULL is not true.
clauseHolds(row, c) ==
  CASE c.op = "eq" -> row.status = c.str
    [] c.op = "lte" -> \E t \in row.publishedAt : t <= c.time
    [] c.op = "like" -> Contains(row.title, c.term)

\* and(...whereClauses); no clause at all is no WHERE.
whereHolds(row, clauses) == \A i \in 1..Len(clauses) : clauseHolds(row, clauses[i])

PublicOnly == [status |-> {}, publicOnly |-> TRUE, search |-> {}]

\* ---------------------------------------------------------------- repository
\* data.limit ?? 10 and data.cursor ?? 0
DefaultLimit == 10
DefaultCursor == 0

tagNameOf(t) == IF t = 1 THEN "t" ELSE "u"

rowsWhere(ps, clauses) == {ps[i] : i \in {j \in DOMAIN ps : whereHolds(ps[j], clauses)}}

rowOfId(rows, id) == CHOOSE r \in rows : r.id = id

\* Rows in descending id order.
rowsDesc(rows) == LET ids == DescSeq({r.id : r \in rows})
                  IN  [i \in 1..Len(ids) |-> rowOfId(rows, ids[i])]

repoGetPostsCursor(ps, now, data) ==
  LET where == buildPostWhereClause(PublicOnly, now)
      rows == {r \in rowsWhere(ps, where) :
                 /\ data.tagName # {} => \E t \in r.tags : tagNameOf(t) \in data.tagName
                 /\ data.cursor # {} => \A c \in data.cursor : r.id < c}
  IN  [items |-> Take(rowsDesc(rows), Opt(data.limit, DefaultLimit))]

repoFindPostBySlug(ps, now, slug, publicOnly) ==
  LET where == buildPostWhereClause([PublicOnly EXCEPT !.publicOnly = publicOnly], now)
  IN  {r \in rowsWhere(ps, where) : r.slug = slug}

repoFindPostById(ps, id) == IF id \in DOMAIN ps THEN {ps[id]} ELSE {}

repoGetPublicPostsByIds(ps, now, ids) ==
  {r \in rowsWhere(ps, buildPostWhereClause(PublicOnly, now)) : r.id \in Range(ids)}

repoUpdatePost(ps, id, data) ==
  IF id \in DOMAIN ps
    THEN [ps EXCEPT ![id] = [f \in DOMAIN ps[id] |->
                               IF f \in DOMAIN data THEN data[f] ELSE ps[id][f]]]
    ELSE ps

repoDeletePost(ps, id) == [i \in DOMAIN ps \ {id} |-> ps[i]]

\* The posts a public caller may see at time now (history only: what the
\* caller could have been shown when its call began).
publicIds(ps, now) ==
  {r.id : r \in rowsWhere(ps, buildPostWhereClause(PublicOnly, now))}

\* ---------------------------------------------------------------- content
highlightCodeBlocks(c) == <<"highlighted", c>>
generateTableOfContents(c) == <<"toc", c>>

\* ---------------------------------------------------------------- requests
Idle == [op |-> "idle", pc |-> "done"]

\* A slot is an execution context: it is free once its handler has returned and
\* the tasks it registered with waitUntil have settled.
Free(s) == req[s].pc = "done" /\ \A t \in deferred : t.ctx # s

\* A new request takes the lowest free context.
CanStart(s) == Free(s) /\ calls < MaxCalls /\ \A s2 \in 1..(s - 1) : ~Free(s2)

\* The posts whose deletePost has returned and whose cleanup has settled
\* (history only: what a call that begins now starts after).
cleanedUp ==
  {req[s].id : s \in {x \in Slots : /\ req[x].op = "deletePost"
                                      /\ Free(x)
                                      /\ req[x].removed}}

dbVars == <<posts, nextId>>
kvVars == <<version, cache, bumps>>
taskVars == <<deferred>>
sideVars == <<searchIndex, cdnCache, postMedia>>
wfVars == <<instances, processRuns>>

\* What a cache-aside get hands back to its caller, and where the caller goes
\* on: the public reads return the value; getRelatedPosts returns [] for an
\* empty id list and resolves the ids otherwise.
afterGet(r, value, wasHit, wvOfEntry) ==
  IF r.op = "getRelatedPosts"
    THEN IF Len(value) = 0
           THEN [op |-> r.op, pc |-> "done", data |-> r.data, cachedIds |-> value,
                 result |-> <<>>, lookedUp |-> FALSE]
           ELSE [op |-> r.op, pc |-> "resolve", data |-> r.data, cachedIds |-> value]
    ELSE [op |-> r.op, pc |-> "done", data |-> r.data, version |-> r.version,
          publicAtStart |-> r.publicAtStart, cleanedAtStart |-> r.cleanedAtStart,
          hit |-> wasHit, wv |-> wvOfEntry,
          result |-> value]

\* CacheService.get, first half: the lookup.
cacheGet_lookup(s) ==
  /\ req[s].pc = "lookup"
  /\ req' = [req EXCEPT ![s] =
       IF req[s].cacheKey \in DOMAIN cache
         THEN afterGet(req[s], cache[req[s].cacheKey].val, TRUE, cache[req[s].cacheKey].wv)
         ELSE [req[s] EXCEPT !.pc = "fetch"]]
  /\ UNCHANGED <<dbVars, kvVars, taskVars, sideVars, wfVars, clock, calls>>

\* A miss that returns the fetched value without writing it.
cacheGet_storeSkipsWrite(s) ==
  /\ req[s].pc = "store"
  /\ req' = [req EXCEPT ![s] = afterGet(req[s], req[s].value, FALSE, req[s].version)]
  /\ UNCHANGED <<dbVars, kvVars, taskVars, sideVars, wfVars, clock, calls>>

\* CacheService.get, second half: the write of the fetched value and the return.
cacheGet_store(s) ==
  /\ req[s].pc = "store"
  /\ cache' = cachePut(cache, req[s].cacheKey, [val |-> req[s].value, wv |-> req[s].version])
  /\ req' = [req EXCEPT ![s] = afterGet(req[s], req[s].value, FALSE, req[s].version)]
  /\ UNCHANGED <<dbVars, version, bumps, taskVars, sideVars, wfVars, clock, calls>>

\* An entry reaches its TTL.
cacheExpire(key) ==
  /\ key \in DOMAIN cache
  /\ key[1] # "posts:sync-hash"
  /\ cache' = deleteKey(cache, key)
  /\ UNCHANGED <<dbVars, version, bumps, taskVars, sideVars, wfVars, clock, calls, req>>

\* ---------------------------------------------------------------- public reads
\* A list key that does not follow the version counter.
getPostsCursorFixedKey(s, data) ==
  /\ CanStart(s)
  /\ version' = getVersionStore(version, "posts:list")
  /\ req' = [req EXCEPT ![s] =
       [op |-> "getPostsCursor", pc |-> "lookup", data |-> data,
        publicAtStart |-> publicIds(posts, clock), cleanedAtStart |-> cleanedUp,
        version |-> getVersionOf(version, "posts:list"),
        cacheKey |-> listKey(1, Opt(data.limit, DefaultLimit),
                             Opt(data.cursor, DefaultCursor), Opt(data.tagName, "all"))]]
  /\ calls' = calls + 1
  /\ UNCHANGED <<dbVars, cache, bumps, taskVars, sideVars, wfVars, clock>>

\* getPostsCursor: read the list version and build the key.
getPostsCursor(s, data) ==
  /\ CanStart(s)
  /\ version' = getVersionStore(version, "posts:list")
  /\ req' = [req EXCEPT ![s] =
       [op |-> "getPostsCursor", pc |-> "lookup", data |-> data,
        publicAtStart |-> publicIds(posts, clock), cleanedAtStart |-> cleanedUp,
        version |-> getVersionOf(version, "posts:list"),
        cacheKey |-> listKey(getVersionOf(version, "posts:list"),
                             Opt(data.limit, DefaultLimit),
                             Opt(data.cursor, DefaultCursor), Opt(data.tagName, "all"))]]
  /\ calls' = calls + 1
  /\ UNCHANGED <<dbVars, cache, bumps, taskVars, sideVars, wfVars, clock>>

getPostsCursor_fetcher(s) ==
  /\ req[s].pc = "fetch"
  /\ req[s].op = "getPostsCursor"
  /\ req' = [req EXCEPT ![s] =
       [op |-> "getPostsCursor", pc |-> "store", data |-> req[s].data,
        publicAtStart |-> req[s].publicAtStart, cleanedAtStart |-> req[s].cleanedAtStart,
        version |-> req[s].version, cacheKey |-> req[s].cacheKey,
        value |-> repoGetPostsCursor(posts, clock, req[s].data)]]
  /\ UNCHANGED <<dbVars, kvVars, taskVars, sideVars, wfVars, clock, calls>>

\* findPostBySlug: read the detail version and build the key.
findPostBySlug(s, data) ==
  /\ CanStart(s)
  /\ version' = getVersionStore(version, "posts:detail")
  /\ req' = [req EXCEPT ![s] =
       [op |-> "findPostBySlug", pc |-> "lookup", data |-> data,
        publicAtStart |-> publicIds(posts, clock), cleanedAtStart |-> cleanedUp,
        version |-> getVersionOf(version, "posts:detail"),
        cacheKey |-> detailKey(getVersionOf(version, "posts:detail"), data.slug)]]
  /\ calls' = calls + 1
  /\ UNCHANGED <<dbVars, cache, bumps, taskVars, sideVars, wfVars, clock>>

\* The detail fetcher: null, or the post with its content (highlighted when it
\* is not null) and its toc.
findPostBySlug_fetcher(s) ==
  /\ req[s].pc = "fetch"
  /\ req[s].op = "findPostBySlug"
  /\ LET found == repoFindPostBySlug(posts, clock, req[s].data.slug, TRUE)
         value == {[post |-> p,
                    contentJson |-> IF p.contentJson = "null"
                                      THEN <<"stored", p.contentJson>>
                                      ELSE highlightCodeBlocks(p.contentJson),
                    toc |-> generateTableOfContents(p.contentJson)] : p \in found}
     IN  req' = [req EXCEPT ![s] =
           [op |-> "findPostBySlug", pc |-> "store", data |-> req[s].data,
            publicAtStart |-> req[s].publicAtStart, cleanedAtStart |-> req[s].cleanedAtStart,
            version |-> req[s].version, cacheKey |-> req[s].cacheKey, value |-> value]]
  /\ UNCHANGED <<dbVars, kvVars, taskVars, sideVars, wfVars, clock, calls>>

\* ---------------------------------------------------------------- environment
Tick ==
  /\ clock < MaxClock
  /\ clock' = clock + 1
  /\ UNCHANGED <<dbVars, kvVars, taskVars, sideVars, wfVars, calls, req>>

\* bumpVersion called by a caller outside the posts service (the publish workflow).
callerBumpVersion(ns) ==
  /\ getVersionOf(version, ns) < MaxVersion
  /\ version' = bumpVersion(version, ns)
  /\ bumps' = [bumps EXCEPT ![ns] = @ + 1]
  /\ UNCHANGED <<dbVars, cache, taskVars, sideVars, wfVars, clock, calls, req>>

\* ---------------------------------------------------------------- sync hash
charCode(c) ==
  CASE c = "a" -> 1 [] c = "b" -> 2 [] c = "-" -> 3 [] c = " " -> 4 [] OTHER -> 5

RECURSIVE strCode(_)
strCode(str) == IF str = <<>> THEN 0 ELSE charCode(Head(str)) + 2 * strCode(Tail(str))

RECURSIVE setSum(_)
setSum(S) == IF S = {} THEN 0 ELSE LET x == CHOOSE y \in S : TRUE IN x + setSum(S \ {x})

contentCode(c) == CASE c = "null" -> 0 [] c = "short" -> 1 [] OTHER -> 2

\* calculatePostHash over the public fields of a post.
calculatePostHash(p) ==
  ( strCode(p.title) + 2 * contentCode(p.contentJson) + 3 * strCode(p.summary)
    + 5 * setSum(p.tagIds) + strCode(p.slug)
    + 3 * setSum({t + 1 : t \in p.publishedAt}) + p.readTimeInMinutes ) % HashMod

\* The argument findPostById builds for calculatePostHash.
hashInput(post) ==
  [title |-> post.title, contentJson |-> post.contentJson, summary |-> post.summary,
   tagIds |-> post.tags, slug |-> post.slug, publishedAt |-> post.publishedAt,
   readTimeInMinutes |-> post.readTimeInMinutes]

\* ---------------------------------------------------------------- admin reads
\* The sync state with the draft branch left out.
syncStateNoDraftBranch(post, kvHash) ==
  [isSynced |-> kvHash = {calculatePostHash(hashInput(post))},
   hasPublicCache |-> kvHash # {}]

\* findPostById, after both reads: isSynced and hasPublicCache.
syncState(post, kvHash) ==
  [isSynced |-> IF post.status = "draft"
                  THEN ~(kvHash # {})
                  ELSE kvHash = {calculatePostHash(hashInput(post))},
   hasPublicCache |-> kvHash # {}]

\* PostRepo.findPostById inside findPostById: null ends the call.
findPostById_row(r, ps, id) ==
  IF repoFindPostById(ps, id) = {}
    THEN [op |-> r.op, pc |-> "done", id |-> id, error |-> FALSE, found |-> {}]
    ELSE [op |-> r.op, pc |-> "getRaw", id |-> id,
          post |-> CHOOSE p \in repoFindPostById(ps, id) : TRUE]

findPostById(s, id) ==
  /\ CanStart(s)
  /\ req' = [req EXCEPT ![s] = findPostById_row([op |-> "findPostById"], posts, id)]
  /\ calls' = calls + 1
  /\ UNCHANGED <<dbVars, kvVars, taskVars, sideVars, wfVars, clock>>

\* CacheService.getRaw of the sync hash, the comparison and the return.
findPostById_getRaw(s) ==
  /\ req[s].pc = "getRaw"
  /\ LET kvHash == getRaw(cache, syncHashKey(req[s].post.id))
     IN  req' = [req EXCEPT ![s] =
           [op |-> req[s].op, pc |-> "done", id |-> req[s].id,
            error |-> FALSE, found |-> {req[s].post}, kvHash |-> kvHash,
            sync |-> syncState(req[s].post, kvHash)]]
  /\ UNCHANGED <<dbVars, kvVars, taskVars, sideVars, wfVars, clock, calls>>

\* ---------------------------------------------------------------- updatePost
Task(ctx, idx, kind, key, ns, id, slug, content) ==
  [ctx |-> ctx, idx |-> idx, kind |-> kind, key |-> key, ns |-> ns, id |-> id,
   slug |-> slug, content |-> content]

\* updatePost registering the media sync before it looks at the repository's answer.
updatePostSyncsFirst(s, id, data) ==
  /\ CanStart(s)
  /\ calls' = calls + 1
  /\ posts' = repoUpdatePost(posts, id, data)
  /\ req' = [req EXCEPT ![s] =
       IF id \notin DOMAIN posts
         THEN [op |-> "updatePost", pc |-> "done", id |-> id, data |-> data,
               error |-> TRUE, found |-> {}]
         ELSE [op |-> "updatePost", pc |-> "find", id |-> id, data |-> data]]
  /\ deferred' = deferred \cup
       (IF "contentJson" \in DOMAIN data
          THEN {Task(s, 1, "syncPostMedia", <<>>, "", id, <<>>, data.contentJson)}
          ELSE {})
  /\ UNCHANGED <<nextId, kvVars, sideVars, wfVars, clock>>

\* updatePost bumping the list version after a successful update.
updatePostBumpsList(s, id, data) ==
  /\ CanStart(s)
  /\ calls' = calls + 1
  /\ posts' = repoUpdatePost(posts, id, data)
  /\ req' = [req EXCEPT ![s] =
       IF id \notin DOMAIN posts
         THEN [op |-> "updatePost", pc |-> "done", id |-> id, data |-> data,
               error |-> TRUE, found |-> {}]
         ELSE [op |-> "updatePost", pc |-> "find", id |-> id, data |-> data]]
  /\ deferred' = deferred \cup
       (IF id \in DOMAIN posts /\ "contentJson" \in DOMAIN data
          THEN {Task(s, 1, "syncPostMedia", <<>>, "", id, <<>>, data.contentJson)}
          ELSE {})
  /\ version' = IF id \in DOMAIN posts THEN bumpVersion(version, "posts:list") ELSE version
  /\ UNCHANGED <<nextId, cache, bumps, sideVars, wfVars, clock>>

\* PostRepo.updatePost, the throw for a missing post, the media-sync registration.
updatePost(s, id, data) ==
  /\ CanStart(s)
  /\ calls' = calls + 1
  /\ posts' = repoUpdatePost(posts, id, data)
  /\ IF id \notin DOMAIN posts
       THEN /\ req' = [req EXCEPT ![s] =
                 [op |-> "updatePost", pc |-> "done", id |-> id, data |-> data,
                  error |-> TRUE, found |-> {}]]
            /\ UNCHANGED taskVars
       ELSE /\ req' = [req EXCEPT ![s] =
                 [op |-> "updatePost", pc |-> "find", id |-> id, data |-> data]]
            /\ LET tasks == IF "contentJson" \in DOMAIN data
                              THEN {Task(s, 1, "syncPostMedia", <<>>, "", id, <<>>,
                                         data.contentJson)}
                              ELSE {}
               IN  /\ deferred' = deferred \cup tasks
  /\ UNCHANGED <<nextId, kvVars, sideVars, wfVars, clock>>

\* return findPostById(context, { id: updatedPost.id })
updatePost_findPostById(s) ==
  /\ req[s].pc = "find"
  /\ req[s].op = "updatePost"
  /\ req' = [req EXCEPT ![s] = findPostById_row(req[s], posts, req[s].id)]
  /\ UNCHANGED <<dbVars, kvVars, taskVars, sideVars, wfVars, clock, calls>>

\* ---------------------------------------------------------------- deletePost
\* The cleanup batch of a published post without the list-version bump.
cleanupTasksNoBump(ctx, post, detailVersion) ==
  { Task(ctx, 1, "deleteKey", detailKey(detailVersion, post.slug), "", 0, <<>>, ""),
    Task(ctx, 3, "deleteIndex", <<>>, "", post.id, <<>>, ""),
    Task(ctx, 4, "purgePostCDNCache", <<>>, "", 0, post.slug, ""),
    Task(ctx, 5, "deleteKey", syncHashKey(post.id), "", 0, <<>>, "") }

\* tasks.push(...) five times: the cleanup batch of a published post.
cleanupTasks(ctx, post, detailVersion) ==
  { Task(ctx, 1, "deleteKey", detailKey(detailVersion, post.slug), "", 0, <<>>, ""),
    Task(ctx, 2, "bumpVersion", <<>>, "posts:list", 0, <<>>, ""),
    Task(ctx, 3, "deleteIndex", <<>>, "", post.id, <<>>, ""),
    Task(ctx, 4, "purgePostCDNCache", <<>>, "", 0, post.slug, ""),
    Task(ctx, 5, "deleteKey", syncHashKey(post.id), "", 0, <<>>, "") }

\* The single task registered for a post that was not published.
draftTasks(ctx, post) ==
  { Task(ctx, 1, "deleteKey", syncHashKey(post.id), "", 0, <<>>, "") }

\* deletePost: PostRepo.findPostById; a missing post ends the call.
deletePost(s, id) ==
  /\ CanStart(s)
  /\ calls' = calls + 1
  /\ req' = [req EXCEPT ![s] =
       IF repoFindPostById(posts, id) = {}
         THEN [op |-> "deletePost", pc |-> "done", id |-> id,
               error |-> FALSE, found |-> {}, removed |-> FALSE, tasks |-> {}]
         ELSE [op |-> "deletePost", pc |-> "deleteRow", id |-> id,
               post |-> CHOOSE p \in repoFindPostById(posts, id) : TRUE]]
  /\ UNCHANGED <<dbVars, kvVars, taskVars, sideVars, wfVars, clock>>

\* PostRepo.deletePost; a post that was not published registers its one task and returns.
deletePost_deleteRow(s) ==
  /\ req[s].pc = "deleteRow"
  /\ posts' = repoDeletePost(posts, req[s].id)
  /\ IF req[s].post.status = "published"
       THEN /\ req' = [req EXCEPT ![s] = [req[s] EXCEPT !.pc = "getVersion"]]
            /\ UNCHANGED taskVars
       ELSE /\ req' = [req EXCEPT ![s] =
                 [op |-> "deletePost", pc |-> "done", id |-> req[s].id,
                  error |-> FALSE, found |-> {req[s].post}, removed |-> TRUE,
                  tasks |-> draftTasks(s, [req[s].post EXCEPT !.id = req[s].id])]]
            /\ deferred' = deferred \cup draftTasks(s, [req[s].post EXCEPT !.id = req[s].id])
  /\ UNCHANGED <<nextId, kvVars, sideVars, wfVars, clock, calls>>

\* getVersion("posts:detail"), the five pushes, waitUntil(Promise.all(tasks)), return.
deletePost_cleanup(s) ==
  /\ req[s].pc = "getVersion"
  /\ version' = getVersionStore(version, "posts:detail")
  /\ LET tasks == cleanupTasks(s, [req[s].post EXCEPT !.id = req[s].id],
                               getVersionOf(version, "posts:detail"))
     IN  /\ req' = [req EXCEPT ![s] =
              [op |-> "deletePost", pc |-> "done", id |-> req[s].id,
               error |-> FALSE, found |-> {req[s].post}, removed |-> TRUE, tasks |-> tasks]]
         /\ deferred' = deferred \cup tasks
  /\ UNCHANGED <<dbVars, cache, bumps, sideVars, wfVars, clock, calls>>

\* ---------------------------------------------------------------- deferred tasks
\* The effect of a task handed to waitUntil, when it completes.
task_deleteKey(t) ==
  /\ t \in deferred /\ t.kind = "deleteKey"
  /\ cache' = deleteKey(cache, t.key)
  /\ deferred' = deferred \ {t}
  /\ UNCHANGED <<dbVars, version, bumps, sideVars, wfVars, clock, calls, req>>

\* The bump task settling without having raised the version.
task_bumpVersionDropped(t) ==
  /\ t \in deferred /\ t.kind = "bumpVersion"
  /\ deferred' = deferred \ {t}
  /\ UNCHANGED <<dbVars, kvVars, sideVars, wfVars, clock, calls, req>>

task_bumpVersion(t) ==
  /\ t \in deferred /\ t.kind = "bumpVersion"
  /\ version' = bumpVersion(version, t.ns)
  /\ bumps' = [bumps EXCEPT ![t.ns] = @ + 1]
  /\ deferred' = deferred \ {t}
  /\ UNCHANGED <<dbVars, cache, sideVars, wfVars, clock, calls, req>>

task_deleteIndex(t) ==
  /\ t \in deferred /\ t.kind = "deleteIndex"
  /\ searchIndex' = searchIndex \ {t.id}
  /\ deferred' = deferred \ {t}
  /\ UNCHANGED <<dbVars, kvVars, cdnCache, postMedia, wfVars, clock, calls, req>>

task_purgePostCDNCache(t) ==
  /\ t \in deferred /\ t.kind = "purgePostCDNCache"
  /\ cdnCache' = cdnCache \ {t.slug}
  /\ deferred' = deferred \ {t}
  /\ UNCHANGED <<dbVars, kvVars, searchIndex, postMedia, wfVars, clock, calls, req>>

task_syncPostMedia(t) ==
  /\ t \in deferred /\ t.kind = "syncPostMedia"
  /\ postMedia' = [i \in DOMAIN postMedia \cup {t.id} |-> IF i = t.id THEN t.content ELSE postMedia[i]]
  /\ deferred' = deferred \ {t}
  /\ UNCHANGED <<dbVars, kvVars, searchIndex, cdnCache, wfVars, clock, calls, req>>

runTask(t) ==
  \/ task_deleteKey(t)
  \/ task_bumpVersion(t)
  \/ task_deleteIndex(t)
  \/ task_purgePostCDNCache(t)
  \/ task_syncPostMedia(t)

\* ---------------------------------------------------------------- the service
Row(id, title, slug, status, publishedAt, contentJson, tags) ==
  [id |-> id, title |-> title, slug |-> slug, status |-> status,
   publishedAt |-> publishedAt, summary |-> <<>>, contentJson |-> contentJson,
   tags |-> tags, readTimeInMinutes |-> 1]

NoPosts == [i \in {} |-> Row(0, <<>>, <<>>, "draft", {}, "null", {})]
NoCache == [k \in {} |-> [val |-> 0, wv |-> 0]]
NoMedia == [i \in {} |-> ""]

\* A published, indexed post with its sync hash stored, and a draft.
InitPosts ==
  [i \in {1, 2} |->
     IF i = 1 THEN Row(1, <<"a">>, <<"a">>, "published", {0}, "short", {1})
              ELSE Row(2, <<"b">>, <<"b">>, "draft", {}, "null", {})]

\* No request has run yet.
InitIdle ==
  /\ clock = 0
  /\ version = [ns \in Namespaces |-> {}]
  /\ req = [s \in Slots |-> Idle]
  /\ calls = 0
  /\ deferred = {}
  /\ postMedia = NoMedia
  /\ bumps = [ns \in Namespaces |-> 0]
  /\ processRuns = <<>>

InitCommon == InitIdle /\ instances = <<>>

Init ==
  /\ InitCommon
  /\ posts = InitPosts
  /\ nextId = 3
  /\ cache = cachePut(NoCache, syncHashKey(1),
                      [val |-> calculatePostHash(hashInput(InitPosts[1])), wv |-> 0])
  /\ searchIndex = {1}
  /\ cdnCache = {<<"a">>}

ListInputs ==
  { [limit |-> {}, cursor |-> {}, tagName |-> {}],
    [limit |-> {}, cursor |-> {}, tagName |-> {"t"}] }

SlugInputs == { <<"a">>, <<"b">> }

PostIds == 1..2

\* Public reads racing version bumps and expiry.
Next ==
  \/ \E s \in Slots :
       \/ \E data \in ListInputs : calls < MaxRaced /\ getPostsCursor(s, data)
       \/ getPostsCursor_fetcher(s)
       \/ \E slug \in SlugInputs : calls < MaxRaced /\ findPostBySlug(s, [slug |-> slug])
       \/ findPostBySlug_fetcher(s)
       \/ cacheGet_lookup(s)
       \/ cacheGet_store(s)
  \/ \E key \in DOMAIN cache : cacheExpire(key)
  \/ \E ns \in Namespaces : callerBumpVersion(ns)

Spec == Init /\ [][Next]_vars

\* ---------------------------------------------------------------- deletes
\* Deletes and their cleanup, next to bumps of the list version by other callers.
NextDelete ==
  \/ \E s \in Slots :
       \/ \E id \in PostIds : deletePost(s, id)
       \/ deletePost_deleteRow(s)
       \/ deletePost_cleanup(s)
  \/ \E t \in deferred : runTask(t)
  \/ callerBumpVersion("posts:list")

SpecDelete == Init /\ [][NextDelete]_vars

\* The platform runs every task handed to waitUntil to its end before it
\* reclaims the execution context.
TasksOf(s) == {t \in deferred : t.ctx = s}

Fairness == \A s \in Slots : WF_vars(\E t \in TasksOf(s) : runTask(t))

\* Deletes and their cleanup alone.
NextLive ==
  \/ \E s \in Slots :
       \/ \E id \in PostIds : calls < MaxRaced /\ deletePost(s, id)
       \/ deletePost_deleteRow(s)
       \/ deletePost_cleanup(s)
  \/ \E t \in deferred : runTask(t)

SpecLive == Init /\ [][NextLive]_vars /\ Fairness

\* ---------------------------------------------------------------- failures
\* await CacheService.getVersion(context, "posts:detail") rejects: the await
\* rethrows inside deletePost, no task has been pushed, nothing is handed to
\* waitUntil, and the promise deletePost returned rejects.
deletePost_getVersionRejects(s) ==
  /\ req[s].pc = "getVersion"
  /\ req' = [req EXCEPT ![s] =
       [op |-> "deletePost", pc |-> "done", id |-> req[s].id,
        error |-> TRUE, found |-> {req[s].post}, removed |-> TRUE, tasks |-> {}]]
  /\ UNCHANGED <<dbVars, kvVars, taskVars, sideVars, wfVars, clock, calls>>

\* A promise handed to waitUntil rejects: its effect does not happen and the
\* rejection stays with the execution context.
task_rejects(t) ==
  /\ t \in deferred
  /\ deferred' = deferred \ {t}
  /\ UNCHANGED <<dbVars, kvVars, sideVars, wfVars, clock, calls, req>>

\* Deletes whose cleanup steps may fail.
NextFault ==
  \/ \E s \in Slots :
       \/ \E id \in PostIds : calls < MaxRaced /\ deletePost(s, id)
       \/ deletePost_deleteRow(s)
       \/ deletePost_cleanup(s)
       \/ deletePost_getVersionRejects(s)
  \/ \E t \in deferred : runTask(t)
  \/ \E t \in deferred : task_rejects(t)

SpecFault == Init /\ [][NextFault]_vars

\* ---------------------------------------------------------------- edits
Updates ==
  { [status |-> "draft"], [status |-> "published"],
    [publishedAt |-> {MaxClock}], [contentJson |-> "long"] }

\* The two posts and an id that no post has.
UpdateIds == {1, 2, 3}

InitEdit == Init

\* Public reads against edits of the posts, with time passing.
NextEdit ==
  \/ \E s \in Slots :
       \/ \E data \in ListInputs : getPostsCursor(s, data)
       \/ getPostsCursor_fetcher(s)
       \/ \E slug \in SlugInputs : findPostBySlug(s, [slug |-> slug])
       \/ findPostBySlug_fetcher(s)
       \/ cacheGet_lookup(s)
       \/ cacheGet_store(s)
       \/ \E id \in UpdateIds, data \in Updates : updatePost(s, id, data)
       \/ updatePost_findPostById(s)
       \/ findPostById_getRaw(s)
  \/ \E t \in deferred : runTask(t)
  \/ Tick

SpecEdit == InitEdit /\ [][NextEdit]_vars

\* Payloads with and without contentJson (null included).
UpdatePayloads ==
  { [status |-> "draft"], [title |-> <<"b">>],
    [contentJson |-> "long"], [contentJson |-> "null"] }

\* Updates of the two posts and of a missing one, next to public reads that
\* fill the cache.
NextUpdate ==
  \/ \E s \in Slots :
       \/ \E data \in ListInputs : calls < MaxRaced /\ getPostsCursor(s, data)
       \/ getPostsCursor_fetcher(s)
       \/ calls < MaxRaced /\ findPostBySlug(s, [slug |-> <<"a">>])
       \/ findPostBySlug_fetcher(s)
       \/ cacheGet_lookup(s)
       \/ cacheGet_store(s)
       \/ \E id \in UpdateIds, data \in UpdatePayloads :
            calls < MaxRaced /\ updatePost(s, id, data)
       \/ updatePost_findPostById(s)
       \/ findPostById_getRaw(s)
  \/ \E t \in deferred : runTask(t)

SpecUpdate == Init /\ [][NextUpdate]_vars

\* ---------------------------------------------------------------- slugs
Digits == <<"0", "1", "2", "3", "4", "5", "6", "7", "8", "9">>

isDigit(c) == \E i \in 1..Len(Digits) : Digits[i] = c
digitOf(c) == (CHOOSE i \in 1..Len(Digits) : Digits[i] = c) - 1

\* parseInt(digits, 10)
RECURSIVE parseInt(_)
parseInt(str) ==
  IF str = <<>> THEN 0
  ELSE 10 * parseInt(SubSeq(str, 1, Len(str) - 1)) + digitOf(str[Len(str)])

\* String(n) for n >= 0
RECURSIVE numberToString(_)
numberToString(n) ==
  IF n < 10 THEN <<Digits[n + 1]>>
  ELSE numberToString(n \div 10) \o <<Digits[(n % 10) + 1]>>

\* slugify: lower case, blanks to dashes.
slugifyChar(c) == CASE c = "A" -> "a" [] c = "B" -> "b" [] c = " " -> "-" [] OTHER -> c
slugify(title) == [i \in 1..Len(title) |-> slugifyChar(title[i])]

startsWith(str, prefix) ==
  Len(str) >= Len(prefix) /\ SubSeq(str, 1, Len(prefix)) = prefix

\* The capture of ^base-(\d+)$ in slug: {} when the slug does not match.
matchSuffix(slug, baseSlug) ==
  IF /\ startsWith(slug, baseSlug \o <<"-">>)
     /\ Len(slug) > Len(baseSlug) + 1
     /\ \A i \in (Len(baseSlug) + 2)..Len(slug) : isDigit(slug[i])
    THEN {SubSeq(slug, Len(baseSlug) + 2, Len(slug))}
    ELSE {}

\* PostRepo.slugExists and PostRepo.findSimilarSlugs (LIKE 'base-%'), both
\* leaving out the post excludeId.
slugExists(ps, slug, excludeId) ==
  \E i \in DOMAIN ps : ps[i].slug = slug /\ i \notin excludeId

findSimilarSlugs(ps, baseSlug, excludeId) ==
  {ps[i].slug : i \in {j \in DOMAIN ps : /\ j \notin excludeId
                                         /\ startsWith(ps[j].slug, baseSlug \o <<"-">>)}}

\* A suffix that counts the numbered slugs instead of taking the largest.
nextSlugByCount(baseSlug, similarSlugs) ==
  baseSlug \o <<"-">>
    \o numberToString(Cardinality({sl \in similarSlugs : matchSuffix(sl, baseSlug) # {}}) + 1)

\* Steps 3 and 4 of generateSlug: the largest numeric suffix, plus one.
nextSlug(baseSlug, similarSlugs) ==
  LET numbers == {parseInt(d) : d \in UNION {matchSuffix(sl, baseSlug) : sl \in similarSlugs}}
      maxSuffix == Max(numbers \cup {0})
  IN  baseSlug \o <<"-">> \o numberToString(maxSuffix + 1)

\* Where a finished generateSlug goes on: createEmptyPost inserts, a direct call returns.
afterSlug(r, slug) ==
  [op |-> r.op, pc |-> IF r.op = "createEmptyPost" THEN "insert" ELSE "done",
   data |-> r.data, slug |-> slug]

\* generateSlug, step 1: slugify and PostRepo.slugExists.
generateSlug_exists(s, op, data) ==
  /\ CanStart(s)
  /\ calls' = calls + 1
  /\ req' = [req EXCEPT ![s] =
       IF slugExists(posts, slugify(data.title), data.excludeId)
         THEN [op |-> op, pc |-> "similar", data |-> data, baseSlug |-> slugify(data.title)]
         ELSE afterSlug([op |-> op, data |-> data], slugify(data.title))]
  /\ UNCHANGED <<dbVars, kvVars, taskVars, sideVars, wfVars, clock>>

generateSlug(s, data) == generateSlug_exists(s, "generateSlug", data)

\* generateSlug, step 2: PostRepo.findSimilarSlugs and the largest suffix.
generateSlug_similar(s) ==
  /\ req[s].pc = "similar"
  /\ req' = [req EXCEPT ![s] =
       afterSlug(req[s], nextSlug(req[s].baseSlug,
                                  findSimilarSlugs(posts, req[s].baseSlug, req[s].data.excludeId)))]
  /\ UNCHANGED <<dbVars, kvVars, taskVars, sideVars, wfVars, clock, calls>>

\* createEmptyPost: generateSlug for the empty title, then the insert of a draft.
createEmptyPost(s) == generateSlug_exists(s, "createEmptyPost", [title |-> <<>>, excludeId |-> {}])

createEmptyPost_insert(s) ==
  /\ req[s].pc = "insert"
  /\ posts' = [i \in DOMAIN posts \cup {nextId} |->
                 IF i = nextId THEN Row(nextId, <<>>, req[s].slug, "draft", {}, "null", {})
                 ELSE posts[i]]
  /\ nextId' = nextId + 1
  /\ req' = [req EXCEPT ![s] = [op |-> "createEmptyPost", pc |-> "done", id |-> nextId]]
  /\ UNCHANGED <<kvVars, taskVars, sideVars, wfVars, clock, calls>>

\* Slugs a database may hold when the service starts.
SlugPool ==
  { <<"a">>, <<"a", "-", "1">>, <<"a", "-", "5">>, <<"a", "-", "9">>,
    <<"a", "-", "0", "7">>, <<"a", "-", "b">>, <<"a", "-", "1", "-", "2">>,
    <<"a", "b">>, <<"a", "-">> }

TitlePool == { <<"a">>, <<"A">>, <<"a", " ", "1">>, <<"b">> }

\* Up to two posts with distinct slugs.
InitSlug ==
  /\ InitCommon
  /\ \E n \in 0..2 : \E f \in [1..n -> SlugPool] :
       /\ \A i, j \in 1..n : i # j => f[i] # f[j]
       /\ posts = [i \in 1..n |-> Row(i, f[i], f[i], "draft", {}, "null", {})]
       /\ nextId = n + 1
  /\ cache = NoCache
  /\ searchIndex = {}
  /\ cdnCache = {}

\* The editor stores the slug it was just given for the post it edits.
saveGeneratedSlug(s) ==
  /\ req[s].op = "generateSlug" /\ req[s].pc = "done"
  /\ \E id \in req[s].data.excludeId :
       updatePost(s, id, [title |-> req[s].data.title, slug |-> req[s].slug])

\* One editor at a time: slugs are generated, stored and posts created in turn.
NextSlug ==
  \/ \E title \in TitlePool, excludeId \in {{}} \cup {{i} : i \in DOMAIN posts} :
       generateSlug(1, [title |-> title, excludeId |-> excludeId])
  \/ generateSlug_similar(1)
  \/ createEmptyPost(1)
  \/ createEmptyPost_insert(1)
  \/ saveGeneratedSlug(1)
  \/ updatePost_findPostById(1)
  \/ findPostById_getRaw(1)

SpecSlug == InitSlug /\ [][NextSlug]_vars

\* Several editors at once: posts are created and slugs generated in any
\* interleaving of their steps.
NextSlugRace ==
  \E s \in Slots :
    \/ createEmptyPost(s)
    \/ generateSlug(s, [title |-> <<"a">>, excludeId |-> {}])
    \/ generateSlug_similar(s)
    \/ createEmptyPost_insert(s)

SpecSlugRace == InitSlug /\ [][NextSlugRace]_vars

\* ---------------------------------------------------------------- summaries
\* if (plainText.length < 100) return post
SummaryMinLength == 100

\* convertToPlainText: the text of a document; null has none, and the three
\* documents have texts just under, at and just over the threshold.
convertToPlainText(contentJson) ==
  [i \in 1..(CASE contentJson = "short" -> SummaryMinLength - 1
                [] contentJson = "long" -> SummaryMinLength
                [] contentJson = "longer" -> SummaryMinLength + 1
                [] OTHER -> 0) |-> "x"]

\* What AiService.summarizeText may answer.
Summaries == {<<"s">>, <<"t">>}

\* generateSummaryByPostId up to its first await and the checks that follow it:
\* PostRepo.findPostById, the throw for a missing post, and the two early
\* returns; otherwise AiService.summarizeText is called.
generateSummaryByPostId(s, postId) ==
  /\ CanStart(s)
  /\ calls' = calls + 1
  /\ LET post == repoFindPostById(posts, postId)
     IN  req' = [req EXCEPT ![s] =
           IF post = {}
             THEN [op |-> "generateSummaryByPostId", pc |-> "done", postId |-> postId,
                   error |-> TRUE, result |-> {}, summarized |-> FALSE, found |-> post]
           ELSE IF \E p \in post : \/ Len(trim(p.summary)) > 0
                                    \/ Len(convertToPlainText(p.contentJson)) < SummaryMinLength
             THEN [op |-> "generateSummaryByPostId", pc |-> "done", postId |-> postId,
                   error |-> FALSE, result |-> post, summarized |-> FALSE, found |-> post]
           ELSE [op |-> "generateSummaryByPostId", pc |-> "summarizeText", postId |-> postId,
                 found |-> post]]
  /\ UNCHANGED <<dbVars, kvVars, taskVars, sideVars, wfVars, clock>>

\* await AiService.summarizeText(context, plainText)
generateSummaryByPostId_summarizeText(s) ==
  /\ req[s].pc = "summarizeText"
  /\ \E summary \in Summaries :
       req' = [req EXCEPT ![s] =
         [op |-> "generateSummaryByPostId", pc |-> "writeSummary", postId |-> req[s].postId,
          found |-> req[s].found, summary |-> summary]]
  /\ UNCHANGED <<dbVars, kvVars, taskVars, sideVars, wfVars, clock, calls>>

\* await PostRepo.updatePost(context.db, post.id, { summary }); return updatedPost
generateSummaryByPostId_updatePost(s) ==
  /\ req[s].pc = "writeSummary"
  /\ posts' = repoUpdatePost(posts, req[s].postId, [summary |-> req[s].summary])
  /\ req' = [req EXCEPT ![s] =
       [op |-> "generateSummaryByPostId", pc |-> "done", postId |-> req[s].postId,
        error |-> FALSE, result |-> repoFindPostById(posts', req[s].postId),
        summarized |-> TRUE, found |-> req[s].found]]
  /\ UNCHANGED <<nextId, kvVars, taskVars, sideVars, wfVars, clock, calls>>

SummaryPool == {<<>>, <<" ">>, <<" ", " ">>, <<"m">>, <<" ", "m", " ">>}
ContentPool == {"null", "short", "long", "longer"}

\* One post, with any summary and any content.
InitSummary ==
  /\ InitCommon
  /\ \E sm \in SummaryPool, c \in ContentPool :
       posts = [i \in {1} |-> [Row(1, <<"a">>, <<"a">>, "draft", {}, c, {}) EXCEPT !.summary = sm]]
  /\ nextId = 2
  /\ cache = NoCache
  /\ searchIndex = {}
  /\ cdnCache = {}

\* Summaries are generated for the post and for an id that no post has, while
\* an editor stores a summary of their own.
NextSummary ==
  \E s \in Slots :
    \/ \E postId \in {1, 2} : generateSummaryByPostId(s, postId)
    \/ generateSummaryByPostId_summarizeText(s)
    \/ generateSummaryByPostId_updatePost(s)
    \/ updatePost(s, 1, [summary |-> <<"m">>])
    \/ updatePost_findPostById(s)
    \/ findPostById_getRaw(s)

SpecSummary == InitSummary /\ [][NextSummary]_vars

\* ---------------------------------------------------------------- admin listing
\* PostRepo.getPosts: the rows the where clause of the options admits.
repoGetPosts(ps, now, options) == rowsWhere(ps, buildPostWhereClause(options, now))

\* getPosts: one repository call with the caller's status, publicOnly and search.
getPosts(s, options) ==
  /\ CanStart(s)
  /\ calls' = calls + 1
  /\ req' = [req EXCEPT ![s] =
       [op |-> "getPosts", pc |-> "done", options |-> options, at |-> clock,
        result |-> repoGetPosts(posts, clock,
                     [status |-> options.status, publicOnly |-> options.publicOnly,
                      search |-> options.search])]]
  /\ UNCHANGED <<dbVars, kvVars, taskVars, sideVars, wfVars, clock>>

\* The publish workflow stores the hash of the row it made public.
workflowStoreHash(id) ==
  /\ id \in DOMAIN posts
  /\ posts[id].status = "published"
  /\ cache' = cachePut(cache, syncHashKey(id),
                       [val |-> calculatePostHash(hashInput(posts[id])), wv |-> 0])
  /\ UNCHANGED <<dbVars, version, bumps, taskVars, sideVars, wfVars, clock, calls, req>>

QueryOptions ==
  [status : {{}, {"draft"}, {"published"}},
   publicOnly : BOOLEAN,
   search : {{}, {<<"b">>}, {<<" ">>}}]

\* Two posts in any of a few states.
InitQuery ==
  /\ InitCommon
  /\ \E st1 \in {"published", "archived"}, at1 \in {{0}, {MaxClock}},
        st2 \in {"draft", "published"}, at2 \in {{}, {1}} :
       posts = [i \in {1, 2} |->
                  IF i = 1 THEN Row(1, <<"a">>, <<"a">>, st1, at1, "short", {1})
                           ELSE Row(2, <<"a", "b">>, <<"b">>, st2, at2, "null", {})]
  /\ cache = NoCache
  /\ nextId = 3
  /\ searchIndex = {}
  /\ cdnCache = {}

\* Listings asked for at any time, with any options.
NextQuery ==
  \/ \E options \in QueryOptions : getPosts(1, options)
  \/ Tick

SpecQuery == InitQuery /\ [][NextQuery]_vars

AdminUpdates ==
  { [status |-> "draft"], [status |-> "published"], [title |-> <<"b">>] }

\* A published post with or without its stored hash, and a draft.
InitAdmin ==
  /\ InitCommon
  /\ posts = InitPosts
  /\ nextId = 3
  /\ \E stored \in BOOLEAN :
       cache = IF stored
                 THEN cachePut(NoCache, syncHashKey(1),
                               [val |-> calculatePostHash(hashInput(InitPosts[1])), wv |-> 0])
                 ELSE NoCache
  /\ searchIndex = {1}
  /\ cdnCache = {<<"a">>}

\* The admin pages: post details with their sync state, edits, and the
\* publish workflow storing hashes.
NextAdmin ==
  \/ \E s \in Slots :
       \/ \E id \in UpdateIds : findPostById(s, id)
       \/ findPostById_getRaw(s)
       \/ \E id \in UpdateIds, data \in AdminUpdates : updatePost(s, id, data)
       \/ updatePost_findPostById(s)
  \/ \E id \in PostIds : workflowStoreHash(id)

SpecAdmin == InitAdmin /\ [][NextAdmin]_vars

\* ---------------------------------------------------------------- related posts
\* All orders in which a set can be listed.
RECURSIVE listingsOf(_)
listingsOf(S) ==
  IF S = {} THEN {<<>>}
  ELSE UNION {{<<x>> \o rest : rest \in listingsOf(S \ {x})} : x \in S}

\* PostRepo.getRelatedPostIds: up to limit public posts other than the one
\* read, in the order of their relevance (any order here).
repoGetRelatedPostIds(ps, now, slug, limit) ==
  LET candidates == {i \in publicIds(ps, now) : ps[i].slug # slug}
  IN  UNION {listingsOf(S) : S \in {T \in SUBSET candidates : Cardinality(T) <= limit}}

\* The rows in the order the repository returned them.
orderedPostsRepoOrder(cachedIds, found) == found

\* cachedIds.map(id => posts.find(p => p.id === id)).filter(p => !!p)
orderedPosts(cachedIds, found) ==
  LET first(id) == {found[CHOOSE k \in {j \in 1..Len(found) : found[j].id = id} :
                            \A j \in 1..k - 1 : found[j].id # id]}
      mapped == [i \in 1..Len(cachedIds) |->
                   IF \E j \in 1..Len(found) : found[j].id = cachedIds[i]
                     THEN first(cachedIds[i]) ELSE {}]
      RECURSIVE filter(_)
      filter(i) == IF i > Len(mapped) THEN <<>>
                   ELSE (IF mapped[i] = {} THEN <<>> ELSE <<CHOOSE p \in mapped[i] : TRUE>>)
                        \o filter(i + 1)
  IN  filter(1)

\* getRelatedPosts: the key of the id list, which carries no version.
getRelatedPosts(s, data) ==
  /\ CanStart(s)
  /\ calls' = calls + 1
  /\ req' = [req EXCEPT ![s] =
       [op |-> "getRelatedPosts", pc |-> "lookup", data |-> data, version |-> 0,
        cacheKey |-> relatedKey(data.slug, data.limit)]]
  /\ UNCHANGED <<dbVars, kvVars, taskVars, sideVars, wfVars, clock>>

getRelatedPosts_fetcher(s) ==
  /\ req[s].pc = "fetch"
  /\ req[s].op = "getRelatedPosts"
  /\ \E postIds \in repoGetRelatedPostIds(posts, clock, req[s].data.slug, req[s].data.limit) :
       req' = [req EXCEPT ![s] =
         [op |-> "getRelatedPosts", pc |-> "store", data |-> req[s].data, version |-> 0,
          cacheKey |-> req[s].cacheKey, value |-> postIds]]
  /\ UNCHANGED <<dbVars, kvVars, taskVars, sideVars, wfVars, clock, calls>>

\* The resolution returning every row of the cached ids, public or not.
getRelatedPosts_resolveUnfiltered(s) ==
  /\ req[s].pc = "resolve"
  /\ \E found \in listingsOf({posts[i] : i \in Range(req[s].cachedIds) \cap DOMAIN posts}) :
       req' = [req EXCEPT ![s] =
         [op |-> "getRelatedPosts", pc |-> "done", data |-> req[s].data,
          cachedIds |-> req[s].cachedIds, result |-> orderedPosts(req[s].cachedIds, found),
          lookedUp |-> TRUE]]
  /\ UNCHANGED <<dbVars, kvVars, taskVars, sideVars, wfVars, clock, calls>>

\* PostRepo.getPublicPostsByIds (in any order) and the reordering.
getRelatedPosts_resolve(s) ==
  /\ req[s].pc = "resolve"
  /\ \E found \in listingsOf(repoGetPublicPostsByIds(posts, clock, req[s].cachedIds)) :
       req' = [req EXCEPT ![s] =
         [op |-> "getRelatedPosts", pc |-> "done", data |-> req[s].data,
          cachedIds |-> req[s].cachedIds, result |-> orderedPosts(req[s].cachedIds, found),
          lookedUp |-> TRUE]]
  /\ UNCHANGED <<dbVars, kvVars, taskVars, sideVars, wfVars, clock, calls>>

\* Four published posts.
InitRelated ==
  /\ InitCommon
  /\ posts = [i \in 1..4 |-> Row(i, <<"a">>, <<"a", Digits[i + 1]>>, "published", {0}, "null", {1})]
  /\ nextId = 5
  /\ cache = NoCache
  /\ searchIndex = 1..4
  /\ cdnCache = {<<"a", Digits[i + 1]>> : i \in 1..4}

\* Related posts of the first post, while the others are unpublished.
NextRelated ==
  \/ \E s \in Slots :
       \/ \E limit \in {1, 3} :
            calls < MaxRaced /\ getRelatedPosts(s, [slug |-> <<"a", "1">>, limit |-> limit])
       \/ getRelatedPosts_fetcher(s)
       \/ getRelatedPosts_resolve(s)
       \/ cacheGet_lookup(s)
       \/ cacheGet_store(s)
       \/ \E id \in 2..4 : calls < MaxRaced /\ updatePost(s, id, [status |-> "draft"])
       \/ updatePost_findPostById(s)
       \/ findPostById_getRaw(s)

SpecRelated == InitRelated /\ [][NextRelated]_vars

\* Related posts of the first post, while the second is unpublished and the
\* third is deleted.
NextStale ==
  \/ \E s \in Slots :
       \/ calls < MaxRaced /\ getRelatedPosts(s, [slug |-> <<"a", "1">>, limit |-> 2])
       \/ getRelatedPosts_fetcher(s)
       \/ getRelatedPosts_resolve(s)
       \/ cacheGet_lookup(s)
       \/ cacheGet_store(s)
       \/ calls < MaxRaced /\ updatePost(s, 2, [status |-> "draft"])
       \/ updatePost_findPostById(s)
       \/ findPostById_getRaw(s)
       \/ calls < MaxRaced /\ deletePost(s, 3)
       \/ deletePost_deleteRow(s)
       \/ deletePost_cleanup(s)
  \/ \E t \in deferred : runTask(t)

\* Four published posts; the related-id list of the first is not cached yet,
\* or an earlier call has cached it.
InitStale ==
  /\ InitCommon
  /\ posts = [i \in 1..4 |-> Row(i, <<"a">>, <<"a", Digits[i + 1]>>, "published", {0}, "null", {1})]
  /\ nextId = 5
  /\ cache \in {NoCache, cachePut(NoCache, relatedKey(<<"a", "1">>, 2), [val |-> <<2, 3>>, wv |-> 0])}
  /\ searchIndex = 1..4
  /\ cdnCache = {<<"a", Digits[i + 1]>> : i \in 1..4}

SpecStale == InitStale /\ [][NextStale]_vars

\* ---------------------------------------------------------------- workflows
\* `post-${data.id}-scheduled`
scheduledId(id) == <<"post", id, "scheduled">>

\* isFuturePublishDate: the parsed time against Date.now(). Every string it is
\* given here comes from toISOString, so the NaN branch is never taken.
isFuturePublishDate(publishedAtISO, now) == parseDate(publishedAtISO) > now

\* The workflow engine: instances in creation order; get(id) resolves to the
\* latest instance created under the id and throws when there is none.
latestInstance(insts, id) ==
  LET S == {i \in 1..Len(insts) : insts[i].id = id}
  IN  IF S = {} THEN 0 ELSE Max(S)

isActive(inst) == inst.status = "queued"

workflowCreate(insts, id, params) ==
  Append(insts, [id |-> id, params |-> params, status |-> "queued"])

workflowTerminate(insts, i) == [insts EXCEPT ![i].status = "terminated"]

\* The params handed to POST_PROCESS_WORKFLOW.create.
processParams(data, publishedAtISO, isFuture) ==
  [postId |-> data.id, isPublished |-> data.status = "published",
   publishedAt |-> publishedAtISO, isFuturePost |-> isFuture]

\* A startPostProcessWorkflow call for this post has not returned yet.
inWorkflowCall(id) ==
  \E s \in Slots : /\ req[s].op = "startPostProcessWorkflow"
                   /\ req[s].pc # "done"
                   /\ req[s].data.id = id

\* startPostProcessWorkflow up to its first await: PostRepo.findPostById for a
\* published status, POST_PROCESS_WORKFLOW.create otherwise.
startPostProcessWorkflow(s, data) ==
  /\ CanStart(s)
  /\ ~inWorkflowCall(data.id)
  /\ calls' = calls + 1
  /\ IF data.status = "published"
       THEN LET post == repoFindPostById(posts, data.id)
                iso == {toISOString(t) : t \in UNION {p.publishedAt : p \in post}}
            IN  /\ req' = [req EXCEPT ![s] =
                     IF post # {} /\ iso = {}
                       THEN [op |-> "startPostProcessWorkflow", pc |-> "updatePost",
                             data |-> data, now |-> getCurrentMinuteEnd(clock)]
                       ELSE [op |-> "startPostProcessWorkflow", pc |-> "create",
                             data |-> data, publishedAtISO |-> iso,
                             isFuture |-> \E i \in iso : isFuturePublishDate(i, clock)]]
                /\ UNCHANGED processRuns
       ELSE /\ processRuns' = Append(processRuns, processParams(data, {}, FALSE))
            /\ req' = [req EXCEPT ![s] =
                 [op |-> "startPostProcessWorkflow", pc |-> "get", data |-> data,
                  publishedAtISO |-> {}, isFuture |-> FALSE]]
  /\ UNCHANGED <<dbVars, kvVars, taskVars, sideVars, instances, clock>>

\* PostRepo.updatePost(post.id, { publishedAt: now }), then isFuture.
startPostProcessWorkflow_updatePost(s) ==
  /\ req[s].pc = "updatePost"
  /\ req[s].op = "startPostProcessWorkflow"
  /\ posts' = repoUpdatePost(posts, req[s].data.id, [publishedAt |-> {req[s].now}])
  /\ req' = [req EXCEPT ![s] =
       [op |-> "startPostProcessWorkflow", pc |-> "create", data |-> req[s].data,
        publishedAtISO |-> {toISOString(req[s].now)},
        isFuture |-> isFuturePublishDate(toISOString(req[s].now), clock)]]
  /\ UNCHANGED <<nextId, kvVars, taskVars, sideVars, wfVars, clock, calls>>

\* POST_PROCESS_WORKFLOW.create({ params }).
startPostProcessWorkflow_create(s) ==
  /\ req[s].pc = "create"
  /\ processRuns' = Append(processRuns,
       processParams(req[s].data, req[s].publishedAtISO, req[s].isFuture))
  /\ req' = [req EXCEPT ![s] = [req[s] EXCEPT !.pc = "get"]]
  /\ UNCHANGED <<dbVars, kvVars, taskVars, sideVars, instances, clock, calls>>

\* After the try/catch: create the scheduled instance only for a published
\* status with a publish time later than Date.now().
afterTerminate(r, now) ==
  IF /\ r.data.status = "published"
     /\ \E iso \in r.publishedAtISO : parseDate(iso) > now
    THEN [op |-> r.op, pc |-> "schedule", data |-> r.data,
          publishedAtISO |-> r.publishedAtISO, isFuture |-> r.isFuture, checkedAt |-> now]
    ELSE [op |-> r.op, pc |-> "done", data |-> r.data,
          publishedAtISO |-> r.publishedAtISO, isFuture |-> r.isFuture, checkedAt |-> now,
          scheduled |-> FALSE, error |-> FALSE]

\* The lookup outside any try/catch: a missing instance ends the call with the error.
startPostProcessWorkflow_getUncaught(s) ==
  /\ req[s].pc = "get"
  /\ LET i == latestInstance(instances, scheduledId(req[s].data.id))
     IN  req' = [req EXCEPT ![s] =
           IF i = 0
             THEN [op |-> req[s].op, pc |-> "done", data |-> req[s].data,
                   publishedAtISO |-> req[s].publishedAtISO, isFuture |-> req[s].isFuture,
                   checkedAt |-> clock, scheduled |-> FALSE, error |-> TRUE]
             ELSE [op |-> req[s].op, pc |-> "terminate", data |-> req[s].data,
                   publishedAtISO |-> req[s].publishedAtISO, isFuture |-> req[s].isFuture,
                   oldInstance |-> i]]
  /\ UNCHANGED <<dbVars, kvVars, taskVars, sideVars, wfVars, clock, calls>>

\* SCHEDULED_PUBLISH_WORKFLOW.get(scheduledId): throws when no instance has the id.
startPostProcessWorkflow_get(s) ==
  /\ req[s].pc = "get"
  /\ LET i == latestInstance(instances, scheduledId(req[s].data.id))
     IN  req' = [req EXCEPT ![s] =
           IF i = 0
             THEN afterTerminate(req[s], clock)
             ELSE [op |-> req[s].op, pc |-> "terminate", data |-> req[s].data,
                   publishedAtISO |-> req[s].publishedAtISO, isFuture |-> req[s].isFuture,
                   oldInstance |-> i]]
  /\ UNCHANGED <<dbVars, kvVars, taskVars, sideVars, wfVars, clock, calls>>

\* The call going on to the creation check without terminating the old instance.
startPostProcessWorkflow_terminateSkipped(s) ==
  /\ req[s].pc = "terminate"
  /\ req' = [req EXCEPT ![s] = afterTerminate(req[s], clock)]
  /\ UNCHANGED <<dbVars, kvVars, taskVars, sideVars, wfVars, clock, calls>>

\* oldInstance.terminate(): throws for an instance that is no longer running;
\* the catch swallows it.
startPostProcessWorkflow_terminate(s) ==
  /\ req[s].pc = "terminate"
  /\ instances' = IF isActive(instances[req[s].oldInstance])
                    THEN workflowTerminate(instances, req[s].oldInstance)
                    ELSE instances
  /\ req' = [req EXCEPT ![s] = afterTerminate(req[s], clock)]
  /\ UNCHANGED <<dbVars, kvVars, taskVars, sideVars, processRuns, clock, calls>>

\* SCHEDULED_PUBLISH_WORKFLOW.create({ id: scheduledId, params }).
startPostProcessWorkflow_schedule(s) ==
  /\ req[s].pc = "schedule"
  /\ instances' = workflowCreate(instances, scheduledId(req[s].data.id),
       [postId |-> req[s].data.id,
        publishedAt |-> CHOOSE iso \in req[s].publishedAtISO : TRUE])
  /\ req' = [req EXCEPT ![s] =
       [op |-> req[s].op, pc |-> "done", data |-> req[s].data,
        publishedAtISO |-> req[s].publishedAtISO, isFuture |-> req[s].isFuture,
        checkedAt |-> req[s].checkedAt, scheduled |-> TRUE, error |-> FALSE]]
  /\ UNCHANGED <<dbVars, kvVars, taskVars, sideVars, processRuns, clock, calls>>

\* A scheduled instance whose publish time has come runs to its end.
scheduledPublishCompletes(i) ==
  /\ i \in 1..Len(instances)
  /\ isActive(instances[i])
  /\ parseDate(instances[i].params.publishedAt) <= clock
  /\ instances' = [instances EXCEPT ![i].status = "complete"]
  /\ UNCHANGED <<dbVars, kvVars, taskVars, sideVars, processRuns, clock, calls, req>>

\* Calls for the first post and for an id that no post has.
WorkflowInputs == {[id |-> id, status |-> st] : id \in {1, 3}, st \in {"draft", "published"}}

\* The published post carries no publish time, a past one or a future one; or
\* an earlier call has scheduled it and its publish time was moved since.
InitWorkflow ==
  /\ InitIdle
  /\ \/ /\ \E at \in {{}, {0}, {MaxClock - 1}} :
            posts = [InitPosts EXCEPT ![1].publishedAt = at]
        /\ instances = <<>>
     \/ /\ posts = [InitPosts EXCEPT ![1].publishedAt = {MaxClock}]
        /\ instances = workflowCreate(<<>>, scheduledId(1),
             [postId |-> 1, publishedAt |-> toISOString(MaxClock - 1)])
  /\ nextId = 3
  /\ cache = NoCache
  /\ searchIndex = {}
  /\ cdnCache = {}

\* Workflow starts, one after another for a post, between edits of the publish
\* time, while time passes and due instances run.
NextWorkflow ==
  \/ \E s \in Slots :
       \/ \E data \in WorkflowInputs : calls < MaxRaced /\ startPostProcessWorkflow(s, data)
       \/ startPostProcessWorkflow_updatePost(s)
       \/ startPostProcessWorkflow_create(s)
       \/ startPostProcessWorkflow_get(s)
       \/ startPostProcessWorkflow_terminate(s)
       \/ startPostProcessWorkflow_schedule(s)
       \/ calls < MaxRaced /\ updatePost(s, 1, [publishedAt |-> {MaxClock}])
       \/ updatePost_findPostById(s)
       \/ findPostById_getRaw(s)
  \/ \E i \in 1..Len(instances) : scheduledPublishCompletes(i)
  \/ Tick

SpecWorkflow == InitWorkflow /\ [][NextWorkflow]_vars

\* ---------------------------------------------------------------- races
\* List reads before, during and after the delete of the published post.
NextListRace ==
  \/ \E s \in Slots :
       \/ getPostsCursor(s, [limit |-> {}, cursor |-> {}, tagName |-> {}])
       \/ getPostsCursor_fetcher(s)
       \/ cacheGet_lookup(s)
       \/ cacheGet_store(s)
       \/ deletePost(s, 1)
       \/ deletePost_deleteRow(s)
       \/ deletePost_cleanup(s)
  \/ \E t \in deferred : runTask(t)

SpecListRace == Init /\ [][NextListRace]_vars

\* Detail reads before, during and after the delete of the published post.
NextDetailRace ==
  \/ \E s \in Slots :
       \/ findPostBySlug(s, [slug |-> <<"a">>])
       \/ findPostBySlug_fetcher(s)
       \/ cacheGet_lookup(s)
       \/ cacheGet_store(s)
       \/ deletePost(s, 1)
       \/ deletePost_deleteRow(s)
       \/ deletePost_cleanup(s)
  \/ \E t \in deferred : runTask(t)

SpecDetailRace == Init /\ [][NextDetailRace]_vars

\* ---------------------------------------------------------------- cache-aside
\* The three cached reads, their misses and hits, and expiry.
NextGet ==
  \/ \E s \in Slots :
       \/ \E data \in ListInputs : getPostsCursor(s, data)
       \/ getPostsCursor_fetcher(s)
       \/ findPostBySlug(s, [slug |-> <<"a">>])
       \/ findPostBySlug_fetcher(s)
       \/ getRelatedPosts(s, [slug |-> <<"b">>, limit |-> 1])
       \/ getRelatedPosts_fetcher(s)
       \/ getRelatedPosts_resolve(s)
       \/ cacheGet_lookup(s)
       \/ cacheGet_store(s)
  \/ \E key \in DOMAIN cache : cacheExpire(key)

SpecGet == Init /\ [][NextGet]_vars

\* ================================================================ claims
IsRead(r) == r.op \in {"getPostsCursor", "findPostBySlug"}

\* The posts in the value a public read returned.
resultRows(r) ==
  IF r.op = "getPostsCursor" THEN Range(r.result.items) ELSE {v.post : v \in r.result}

\* C1: for every namespace, getVersion is 1 while no counter exists and equals
\* 1 plus the number of bumpVersion calls completed so far, however the calls
\* interleave: every bump raises it by exactly one and none is lost.
C1_VersionCountsBumps ==
  \A ns \in Namespaces : getVersionOf(version, ns) = 1 + bumps[ns]

\* Two bumps of the list version (one by a caller, one by a delete) have completed.
C1_Witness == bumps["posts:list"] = 2 /\ version["posts:list"] = {3}

\* C2, first half: a read that was served from the cache got an entry written
\* by a call that had read the same version.
C2_HitHasReadersVersion ==
  \A s \in Slots :
    (IsRead(req[s]) /\ req[s].pc = "done" /\ req[s].hit) => req[s].wv = req[s].version

\* C2, second half: right after a bump of posts:list no key built from the new
\* version is in the cache, whatever the inputs.
C2_BumpOrphansEntries ==
  getVersionOf(version', "posts:list") # getVersionOf(version, "posts:list")
    => \A data \in ListInputs :
         listKey(getVersionOf(version', "posts:list"), Opt(data.limit, DefaultLimit),
                 Opt(data.cursor, DefaultCursor), Opt(data.tagName, "all"))
           \notin DOMAIN cache'

\* C2: an entry keyed with version v is never returned to a call that read
\* another version, and the first getPostsCursor after a bump is a miss.
C2_OldVersionNeverServed == [](C2_HitHasReadersVersion) /\ [][C2_BumpOrphansEntries]_vars

\* A list read under version 2 missed while the entry under version 1 for the
\* same inputs was still in the cache.
C2_Witness ==
  \E s \in Slots :
    /\ req[s].op = "getPostsCursor" /\ req[s].pc = "done"
    /\ ~req[s].hit /\ req[s].version = 2
    /\ listKey(1, Opt(req[s].data.limit, DefaultLimit), Opt(req[s].data.cursor, DefaultCursor),
               Opt(req[s].data.tagName, "all")) \in DOMAIN cache

\* A post that a public caller may be shown at time now: published, with a
\* publish time no later than the end of the current minute.
isPublicNow(ps, now, id) ==
  id \in DOMAIN ps => ( /\ ps[id].status = "published"
                        /\ \E t \in ps[id].publishedAt : t <= getCurrentMinuteEnd(now) )

\* A public read returns in this step.
Returns(s) == IsRead(req'[s]) /\ req'[s].pc = "done" /\ req[s].pc # "done"

\* C5: a public read never returns a post that is a draft or future-dated at
\* the time of the call (neither when the call began nor when it returns).
C5_ResultIsPublic ==
  [][\A s \in Slots :
       Returns(s) => \A row \in resultRows(req'[s]) :
                       \/ isPublicNow(posts', clock', row.id)
                       \/ row.id \in req'[s].publicAtStart]_vars

\* The slugs of the posts other than excludeId.
otherSlugs(ps, excludeId) == {ps[i].slug : i \in DOMAIN ps \ excludeId}

\* A slug equal to base-N exists: the base, a dash and the digits of N
\* (with up to two leading zeros).
numberedSlugExists(slugs, base, n) ==
  \E zeros \in {<<>>, <<"0">>, <<"0", "0">>} :
    (base \o <<"-">> \o zeros \o numberToString(n)) \in slugs

\* Largest numeric suffix the formula looks for among the stored slugs.
MaxSuffixChecked == 12

\* C3: generateSlug returns the base slug when no other post has it, and
\* otherwise base-(M+1) for the largest M with a slug base-M among the other
\* posts (0 when there is none); the slug it returns is the slug of no other post.
C3_GenerateSlug ==
  \A s \in Slots :
    (req[s].op = "generateSlug" /\ req[s].pc = "done") =>
      LET base == slugify(req[s].data.title)
          others == otherSlugs(posts, req[s].data.excludeId)
          M == Max({0} \cup {n \in 1..MaxSuffixChecked : numberedSlugExists(others, base, n)})
      IN  /\ base \notin others => req[s].slug = base
          /\ base \in others => req[s].slug = base \o <<"-">> \o numberToString(M + 1)
          /\ req[s].slug \notin others

\* Only a and a-5 exist and generateSlug for title a has returned a-6.
C3_Witness ==
  /\ {posts[i].slug : i \in DOMAIN posts} = {<<"a">>, <<"a", "-", "5">>}
  /\ \E s \in Slots : /\ req[s].op = "generateSlug" /\ req[s].pc = "done"
                      /\ req[s].data.excludeId = {}
                      /\ req[s].slug = <<"a", "-", "6">>

\* C4: a query built with publicOnly admits only rows that are published and
\* whose publishedAt is no later than the end of the minute of the query,
\* whatever the status and search options are.
C4_PublicOnlyAdmits ==
  \A s \in Slots :
    (req[s].op = "getPosts" /\ req[s].options.publicOnly) =>
      \A row \in req[s].result :
        /\ row.status = "published"
        /\ row.publishedAt # {}
        /\ \A t \in row.publishedAt : t <= getCurrentMinuteEnd(req[s].at)

\* A publicOnly query returned rows and left out a published post dated after
\* the end of the current minute.
C4_Witness ==
  \E s \in Slots :
    /\ req[s].op = "getPosts" /\ req[s].options.publicOnly
    /\ req[s].result # {}
    /\ \E i \in DOMAIN posts :
         /\ posts[i].status = "published"
         /\ \E t \in posts[i].publishedAt : t > getCurrentMinuteEnd(req[s].at)
         /\ posts[i] \notin req[s].result

\* findPostById returns in this step, having read the row req[s].post.
ReturnsSync(s) == req[s].pc = "getRaw" /\ req'[s].pc = "done"

\* C7: for a draft isSynced says that no sync hash is stored; for any other
\* status it says that the stored hash is the hash of the row's public fields;
\* hasPublicCache says that a sync hash is stored.
C7_SyncState ==
  [][\A s \in Slots :
       ReturnsSync(s) =>
         LET post == req[s].post
             key == syncHashKey(post.id)
             stored == key \in DOMAIN cache
             sync == req'[s].sync
         IN  /\ post.status = "draft" => (sync.isSynced <=> ~stored)
             /\ post.status # "draft" =>
                  (sync.isSynced <=>
                     (stored /\ cache[key].val = calculatePostHash(hashInput(post))))
             /\ sync.hasPublicCache <=> stored]_vars

\* A draft with a leftover hash was reported as not synced.
C7_Witness ==
  \E s \in Slots :
    /\ req[s].op \in {"findPostById", "updatePost"} /\ req[s].pc = "done"
    /\ \E p \in req[s].found : p.status = "draft"
    /\ "sync" \in DOMAIN req[s]
    /\ ~req[s].sync.isSynced /\ req[s].sync.hasPublicCache

idsOf(rows) == [i \in 1..Len(rows) |-> rows[i].id]

\* The members of ids that are in S, in the order of ids.
RECURSIVE keepIn(_, _)
keepIn(ids, S) ==
  IF ids = <<>> THEN <<>>
  ELSE (IF Head(ids) \in S THEN <<Head(ids)>> ELSE <<>>) \o keepIn(Tail(ids), S)

\* C6, the empty list: [] is returned without a repository lookup.
C6_EmptyListNoLookup ==
  \A s \in Slots :
    (req[s].op = "getRelatedPosts" /\ req[s].pc = "done" /\ req[s].cachedIds = <<>>)
      => (req[s].result = <<>> /\ ~req[s].lookedUp)

\* C6, the resolution: the result lists the cached ids that the repository
\* resolves as public, in the cached order, and nothing else.
C6_ResolveKeepsOrder ==
  \A s \in Slots :
    (req[s].pc = "resolve" /\ req'[s].pc = "done") =>
      /\ idsOf(req'[s].result) = keepIn(req[s].cachedIds, publicIds(posts, clock))
      /\ \A i \in 1..Len(req'[s].result) : req'[s].result[i] = posts[req'[s].result[i].id]

\* C6: getRelatedPosts returns the public posts of the cached id list in the
\* cached order, dropping the ids the repository does not return.
C6_RelatedOrder == [](C6_EmptyListNoLookup) /\ [][C6_ResolveKeepsOrder]_vars

\* Cached [4, 2, 3] with post 3 no longer public gave [4, 2].
C6_Witness ==
  \E s \in Slots :
    /\ req[s].op = "getRelatedPosts" /\ req[s].pc = "done"
    /\ req[s].cachedIds = <<4, 2, 3>>
    /\ idsOf(req[s].result) = <<4, 2>>

\* The number of tasks in T of the given kind and arguments.
countTasks(T, kind, key, ns, id, slug) ==
  Cardinality({t \in T : /\ t.kind = kind /\ t.key = key /\ t.ns = ns
                         /\ t.id = id /\ t.slug = slug})

\* C8, a published post: the step that ends deletePost has removed the row and
\* registers exactly five tasks, one of each kind, the detail purge under the
\* posts:detail version current at that step.
C8_PublishedCascade ==
  \A s \in Slots :
    (req[s].pc = "getVersion" /\ req'[s].pc = "done") =>
      LET post == req[s].post
          T == req'[s].tasks
      IN  /\ post.status = "published"
          /\ post.id \notin DOMAIN posts'
          /\ T \subseteq deferred' /\ T \cap deferred = {}
          /\ Cardinality(T) = 5
          /\ countTasks(T, "deleteKey",
                        detailKey(getVersionOf(version, "posts:detail"), post.slug),
                        "", 0, <<>>) = 1
          /\ countTasks(T, "bumpVersion", <<>>, "posts:list", 0, <<>>) = 1
          /\ countTasks(T, "deleteIndex", <<>>, "", post.id, <<>>) = 1
          /\ countTasks(T, "purgePostCDNCache", <<>>, "", 0, post.slug) = 1
          /\ countTasks(T, "deleteKey", syncHashKey(post.id), "", 0, <<>>) = 1

\* C8, any other post: the step that removes the row ends deletePost and
\* registers the sync-hash delete alone.
C8_DraftCascade ==
  \A s \in Slots :
    (req[s].pc = "deleteRow" /\ req[s].post.status # "published") =>
      /\ req'[s].pc = "deleteRow" \/
           LET post == req[s].post
               T == req'[s].tasks
           IN  /\ req'[s].pc = "done"
               /\ post.id \notin DOMAIN posts'
               /\ T \subseteq deferred' /\ T \cap deferred = {}
               /\ Cardinality(T) = 1
               /\ countTasks(T, "deleteKey", syncHashKey(post.id), "", 0, <<>>) = 1
               /\ version' = version

\* C8, completion: whenever tasks are registered and not settled, a later state
\* has all of them settled.
C8_TasksSettle == (deferred # {}) ~> (deferred = {})

\* C8: the delete cascade of a published post and of a draft.
C8_DeleteCascade ==
  /\ [][C8_PublishedCascade /\ C8_DraftCascade]_vars
  /\ C8_TasksSettle

\* The published post was deleted and its five tasks have all taken effect.
C8_Witness ==
  \E s \in Slots :
    /\ req[s].op = "deletePost" /\ req[s].pc = "done"
    /\ Cardinality(req[s].tasks) = 5
    /\ TasksOf(s) = {}
    /\ 1 \notin DOMAIN posts
    /\ bumps["posts:list"] >= 1
    /\ 1 \notin searchIndex
    /\ <<"a">> \notin cdnCache
    /\ syncHashKey(1) \notin DOMAIN cache

\* C9: once deletePost has removed the row of a published post, the call ends
\* without an error whichever cleanup step fails, and it ends without waiting
\* for a cleanup step (its tasks may still be pending when it has returned).
C9_CleanupFailureNotSurfaced ==
  \A s \in Slots :
    ( /\ req[s].op = "deletePost" /\ req[s].pc = "done"
      /\ req[s].removed
      /\ \E p \in req[s].found : p.status = "published" )
      => ~req[s].error

\* The running scheduled-publish instances of a post.
activeFor(insts, postId) ==
  {i \in 1..Len(insts) : isActive(insts[i]) /\ insts[i].params.postId = postId}

\* C10, at every moment: a post has at most one running scheduled-publish
\* instance, and its id is post-<id>-scheduled.
C10_AtMostOneActive ==
  \A p \in UpdateIds :
    /\ Cardinality(activeFor(instances, p)) <= 1
    /\ \A i \in activeFor(instances, p) : instances[i].id = scheduledId(p)

\* C10, at the end of each call: when the status is published and the publish
\* time is later than the time read by the call, exactly one instance is running
\* for the post and it carries that publish time; otherwise none is running.
C10_CallLeaves ==
  \A s \in Slots :
    ( /\ req'[s].op = "startPostProcessWorkflow"
      /\ req'[s].pc = "done" /\ req[s].pc # "done" ) =>
      LET r == req'[s]
          A == activeFor(instances', r.data.id)
      IN  IF /\ r.data.status = "published"
             /\ \E iso \in r.publishedAtISO : parseDate(iso) > r.checkedAt
            THEN \E i \in A : /\ A = {i}
                              /\ instances'[i].params.publishedAt \in r.publishedAtISO
                              /\ i = Len(instances')
            ELSE A = {}

lookupThrows(s) ==
  /\ req[s].op = "startPostProcessWorkflow"
  /\ \/ /\ req[s].pc = "get"
        /\ latestInstance(instances, scheduledId(req[s].data.id)) = 0
     \/ /\ req[s].pc = "terminate"
        /\ ~isActive(instances[req[s].oldInstance])

\* C11, the catch: a step in which the lookup or the termination throws leaves
\* the instances as they are and takes the call on without an error, to the
\* creation of the new instance when the status is published and the publish
\* time is in the future, to a normal return otherwise.
C11_ThrowIsCaught ==
  \A s \in Slots :
    (lookupThrows(s) /\ req'[s] # req[s]) =>
      LET due == /\ req[s].data.status = "published"
                 /\ \E iso \in req[s].publishedAtISO : parseDate(iso) > clock
      IN  /\ instances' = instances
          /\ due => req'[s].pc = "schedule"
          /\ ~due => (req'[s].pc = "done" /\ ~req'[s].error)

\* C11, the creation: the step after the catch creates the instance and ends
\* the call without an error.
C11_ThenCreates ==
  \A s \in Slots :
    (req[s].pc = "schedule" /\ req'[s] # req[s]) =>
      /\ req'[s].pc = "done" /\ ~req'[s].error /\ req'[s].scheduled
      /\ Len(instances') = Len(instances) + 1
      /\ isActive(instances'[Len(instances')])
      /\ instances'[Len(instances')].id = scheduledId(req[s].data.id)
      /\ instances'[Len(instances')].params.publishedAt \in req[s].publishedAtISO

\* C11: a lookup or termination that fails because the scheduled instance is
\* absent or has finished is swallowed; the call does not fail and still
\* creates the new instance when the publish time is in the future.
C11_LookupFailureSwallowed == [][C11_ThrowIsCaught /\ C11_ThenCreates]_vars

\* A call found only a finished instance, and ended having created a new one.
C11_Witness ==
  \E s \in Slots :
    /\ req[s].op = "startPostProcessWorkflow" /\ req[s].pc = "done"
    /\ req[s].scheduled /\ ~req[s].error
    /\ Len(instances) = 2
    /\ instances[1].status = "complete" /\ instances[1].id = instances[2].id
    /\ isActive(instances[2])

\* updatePost begins in this step, in context s.
updateStarts(s) ==
  /\ calls' = calls + 1
  /\ req'[s].op = "updatePost"
  /\ req'[s] # req[s]

\* C12: updatePost for an id that no post has ends with an error, registers no
\* deferred task and leaves every post, cache entry and cache version as it was.
C12_MissingPostRaises ==
  [][\A s \in Slots :
       (updateStarts(s) /\ req'[s].id \notin DOMAIN posts) =>
         /\ req'[s].pc = "done" /\ req'[s].error
         /\ deferred' = deferred
         /\ posts' = posts
         /\ cache' = cache
         /\ version' = version]_vars

\* updatePost with a contentJson payload for a missing post has raised its
\* error while list and sync-hash entries were cached.
C12_Witness ==
  \E s \in Slots :
    /\ req[s].op = "updatePost" /\ req[s].pc = "done" /\ req[s].error
    /\ "contentJson" \in DOMAIN req[s].data
    /\ deferred = {}
    /\ \E k \in DOMAIN cache : k[1] = "posts:list"

\* A step of an updatePost call in context s: its start or a later await.
updateSteps(s) ==
  \/ updateStarts(s)
  \/ req[s].op = "updatePost" /\ req[s].pc # "done" /\ req'[s] # req[s]

\* C16, the cache: no step of updatePost changes a version counter or any cache
\* entry (list, detail or sync hash).
C16_CacheUntouched ==
  \A s \in Slots : updateSteps(s) => (version' = version /\ cache' = cache)

\* C16, the media sync: the step that applies the update to an existing post
\* registers one syncPostMedia task for the post with the new content when the
\* payload has contentJson and none when it has not; the later steps of the
\* call register nothing.
C16_SyncIffContent ==
  \A s \in Slots :
    /\ (updateStarts(s) /\ req'[s].id \in DOMAIN posts) =>
         /\ deferred \subseteq deferred'
         /\ deferred' \ deferred =
              IF "contentJson" \in DOMAIN req'[s].data
                THEN {Task(s, 1, "syncPostMedia", <<>>, "", req'[s].id, <<>>,
                           req'[s].data.contentJson)}
                ELSE {}
    /\ (req[s].op = "updatePost" /\ req[s].pc # "done" /\ req'[s] # req[s]) =>
         deferred' = deferred

\* C16: updatePost leaves the version counters, the cached list and detail
\* entries and the sync hash as they are, and registers the media sync exactly
\* when the payload contains contentJson.
C16_UpdateFrame == [][C16_CacheUntouched /\ C16_SyncIffContent]_vars

\* An update with a null contentJson registered its media sync while a list
\* entry, a detail entry and the sync hash were cached.
C16_Witness ==
  \E s \in Slots :
    /\ req[s].op = "updatePost" /\ req[s].pc = "find"
    /\ "contentJson" \in DOMAIN req[s].data /\ req[s].data.contentJson = "null"
    /\ \E t \in deferred : t.kind = "syncPostMedia" /\ t.ctx = s
    /\ \E k \in DOMAIN cache : k[1] \in {"posts:list", "posts:detail"}
    /\ syncHashKey(1) \in DOMAIN cache

\* The calls that go through the cache-aside get.
IsGet(r) == r.op \in {"getPostsCursor", "findPostBySlug", "getRelatedPosts"}

\* The value the cache-aside get handed to its caller.
gotValue(r) == IF r.op = "getRelatedPosts" THEN r.cachedIds ELSE r.result

\* The get of context s takes a step.
getSteps(s, pc) == IsGet(req[s]) /\ req[s].pc = pc /\ req'[s] # req[s]

\* C13, a hit: the stored value is returned, the fetcher is not invoked and
\* nothing is written.
C13_Hit ==
  \A s \in Slots :
    (getSteps(s, "lookup") /\ req[s].cacheKey \in DOMAIN cache) =>
      /\ cache' = cache
      /\ req'[s].pc \notin {"lookup", "fetch", "store"}
      /\ gotValue(req'[s]) = cache[req[s].cacheKey].val

\* C13, a miss: the lookup goes to the fetcher, the fetcher runs once and goes
\* to the write, and the write stores the fetched value under the key, changes
\* no other entry and returns that value.
C13_Miss ==
  \A s \in Slots :
    /\ (getSteps(s, "lookup") /\ req[s].cacheKey \notin DOMAIN cache) =>
         (req'[s].pc = "fetch" /\ cache' = cache)
    /\ getSteps(s, "fetch") => (req'[s].pc = "store" /\ cache' = cache)
    /\ getSteps(s, "store") =>
         /\ DOMAIN cache' = DOMAIN cache \cup {req[s].cacheKey}
         /\ \A k \in DOMAIN cache \ {req[s].cacheKey} : cache'[k] = cache[k]
         /\ cache'[req[s].cacheKey].val = req[s].value
         /\ req'[s].pc \notin {"lookup", "fetch", "store"}
         /\ gotValue(req'[s]) = req[s].value

\* C13: the cache-aside get under getPostsCursor, findPostBySlug and
\* getRelatedPosts returns the stored value on a hit without fetching or
\* writing, and on a miss fetches once, writes the fetched value once under
\* the key and returns it, so the next get of the key is a hit with that value.
C13_CacheAside == [][C13_Hit /\ C13_Miss]_vars

\* A miss and a later hit of the same list key returned the same value.
C13_Witness ==
  \E s1, s2 \in Slots :
    /\ req[s1].op = "getPostsCursor" /\ req[s1].pc = "done" /\ ~req[s1].hit
    /\ req[s2].op = "getPostsCursor" /\ req[s2].pc = "done" /\ req[s2].hit
    /\ req[s1].data = req[s2].data /\ req[s1].version = req[s2].version
    /\ req[s1].result = req[s2].result
    /\ req[s1].result.items # <<>>

\* C14: a getPostsCursor call that begins after a deletePost has returned and
\* its cleanup has settled does not return the deleted post, whatever readers
\* that began earlier have written to the cache.
C14_ListReadAfterDelete ==
  [][\A s \in Slots :
       (Returns(s) /\ req'[s].op = "getPostsCursor") =>
         \A row \in resultRows(req'[s]) : row.id \notin req'[s].cleanedAtStart]_vars

\* A reader that began before the delete has left the deleted post in a cached
\* list, and a reader that began after the cleanup has returned.
C14_Witness ==
  /\ \E k \in DOMAIN cache :
       /\ k[1] = "posts:list"
       /\ \E i \in 1..Len(cache[k].val.items) : cache[k].val.items[i].id = 1
  /\ \E s \in Slots :
       /\ req[s].op = "getPostsCursor" /\ req[s].pc = "done"
       /\ req[s].cleanedAtStart = {1}

\* C20: a findPostBySlug call that begins after a deletePost has returned and
\* its cleanup has settled does not return the deleted post.
C20_DetailReadAfterDelete ==
  [][\A s \in Slots :
       (Returns(s) /\ req'[s].op = "findPostBySlug") =>
         \A row \in resultRows(req'[s]) : row.id \notin req'[s].cleanedAtStart]_vars

\* The step of a startPostProcessWorkflow call that stamps the publish time.
stampSteps(s) ==
  /\ req[s].op = "startPostProcessWorkflow"
  /\ req[s].pc = "updatePost"
  /\ req'[s].pc = "create"

\* C15: when startPostProcessWorkflow writes publishedAt, the requested status
\* is published and the post carries no publishedAt at that moment: a publish
\* time that exists is never overwritten.
C15_ExistingNeverOverwritten ==
  [][\A s \in Slots :
       stampSteps(s) =>
         /\ req[s].data.status = "published"
         /\ \A p \in repoFindPostById(posts, req[s].data.id) : p.publishedAt = {}]_vars

\* C17, the result: every post that a resolution returns is public at that
\* moment, so an id cached earlier whose post was unpublished or deleted since
\* is dropped.
C17_StaleIdsDropped ==
  \A s \in Slots :
    (req[s].op = "getRelatedPosts" /\ req[s].pc = "resolve" /\ req'[s].pc = "done") =>
      \A i \in 1..Len(req'[s].result) : req'[s].result[i].id \in publicIds(posts, clock)

\* C17, the list: no step removes a cached related-id list, and only the store
\* of a getRelatedPosts call that missed it writes it.
C17_ListKept ==
  \A k \in DOMAIN cache :
    k[1] = "posts:related" =>
      /\ k \in DOMAIN cache'
      /\ \/ cache'[k] = cache[k]
         \/ \E s \in Slots : /\ req[s].op = "getRelatedPosts"
                              /\ req[s].pc = "store" /\ req'[s].pc # "store"
                              /\ req[s].cacheKey = k

\* C17: a post of the cached related-id list that was unpublished or deleted
\* after the list was cached is in no later getRelatedPosts result, while the
\* cached list itself stays as it was.
C17_RelatedFresh == [][C17_StaleIdsDropped]_vars /\ [][C17_ListKept]_vars

\* The cached list still names the unpublished post 2 or the deleted post 3,
\* the delete's cleanup has settled, and a call resolved the list without it.
C17_Witness ==
  \E s \in Slots, id \in {2, 3} :
    /\ req[s].op = "getRelatedPosts" /\ req[s].pc = "done"
    /\ id \in Range(req[s].cachedIds)
    /\ id \notin publicIds(posts, clock)
    /\ id \notin Range(idsOf(req[s].result))
    /\ req[s].result # <<>>
    /\ relatedKey(req[s].data.slug, req[s].data.limit) \in DOMAIN cache
    /\ cache[relatedKey(req[s].data.slug, req[s].data.limit)].val = req[s].cachedIds

\* C18: two createEmptyPost calls that are under way together, each holding the
\* slug that generateSlug gave it for the same title, hold different slugs.
C18_ConcurrentSlugsDiffer ==
  \A s, t \in Slots :
    (/\ s # t
     /\ req[s].op = "createEmptyPost" /\ req[s].pc = "insert"
     /\ req[t].op = "createEmptyPost" /\ req[t].pc = "insert")
      => req[s].slug # req[t].slug

\* C19: when generateSummaryByPostId writes a summary, the post exists, the
\* summary it holds is empty or blank, and its plain text has at least 100
\* characters.
C19_WritesOnlyEmptySummary ==
  [][\A s \in Slots :
       (/\ req[s].op = "generateSummaryByPostId"
        /\ req[s].pc = "writeSummary" /\ req'[s].pc = "done") =>
         \E p \in repoFindPostById(posts, req[s].postId) :
           /\ trim(p.summary) = <<>>
           /\ Len(convertToPlainText(p.contentJson)) >= SummaryMinLength]_vars

\* C21: in every finished startPostProcessWorkflow call, the isFuturePost flag
\* handed to the post-process workflow is true exactly when the call created a
\* scheduled-publish instance, however much time passed between the two reads
\* of the clock.
C21_FlagAgreesWithSchedule ==
  \A s \in Slots :
    (req[s].op = "startPostProcessWorkflow" /\ req[s].pc = "done") =>
      (req[s].isFuture <=> req[s].scheduled)

\* C22: when startPostProcessWorkflow stamps the publish time of a post that
\* had none, the post is public at once and the flag isFuturePost that the
\* post-process workflow is started with is false.
C22_StampedNotFuture ==
  [][\A s \in Slots :
       stampSteps(s) =>
         /\ req[s].data.id \in publicIds(posts', clock)
         /\ ~req'[s].isFuture]_vars

====
